---- MODULE Spec2Model ----
(***************************************************************************)
(* BlogPostGenerator (blog_post_generator_workflow_playground.py): a       *)
(* cached "search then write" workflow.  run(topic, use_cache) is a Python *)
(* generator: it executes from one resumption (next()) up to the next      *)
(* yield, return or raise.  The searcher and the writer are agents of the  *)
(* framework; the model draws their answers nondeterministically.          *)
(***************************************************************************)
EXTENDS Integers, Sequences, FiniteSets, TLC

\* ------------------------------------------------------------------ bounds
MaxChunks == 2
MaxArticles == 1

\* MAX_ATTEMPTS of _get_search_results
MAX_ATTEMPTS == 3

Topics == {"t1", "t2"}
Runs == {1, 2}
\* the caller of the sequential specification drives one generator at a time
SeqRuns == {1}
\* texts a single streamed chunk may carry (the empty string included)
ChunkTexts == {<<>>, <<"a">>}

\* ------------------------------------------------------- values of Python
\* Optional[str]: None, or a string (a sequence of characters)
None == [isNone |-> TRUE, str |-> <<>>]
Str(s) == [isNone |-> FALSE, str |-> s]

\* truth value of an Optional[str] in `if x:` (None and "" are falsy)
Truthy_presentOnly(v) == ~v.isNone
Truthy(v) == ~v.isNone /\ v.str # <<>>

\* the dict with no keys
EmptyDict == [k \in {} |-> None]

\* dict.get(key, default)
DictGet(d, k, default) == IF k \in DOMAIN d THEN d[k] ELSE default

\* d[key] = value
DictSet(d, k, v) == [x \in (DOMAIN d) \cup {k} |-> IF x = k THEN v ELSE d[x]]

\* Optional[SearchResults]: None, or SearchResults(articles=[...])
NoSearchResults == [kind |-> "None", articles |-> <<>>]
SearchResults(n) == [kind |-> "SearchResults", articles |-> [i \in 1..n |-> i]]

\* what one call self.searcher.run(topic) can do: raise, return a falsy
\* response, return a response whose content is no SearchResults, or return
\* a response whose content is a SearchResults of 0..MaxArticles articles
SearcherOutcomes ==
  {[kind |-> "raise", articles |-> <<>>],
   [kind |-> "falsy", articles |-> <<>>],
   [kind |-> "other", articles |-> <<>>]}
  \cup {SearchResults(n) : n \in 0..MaxArticles}

\* RunResponse(content=..., event=...)
RunResponse(content, event) == [content |-> content, event |-> event]
\* f"No search results found for topic: '{topic}'"
NoResultsMessage(t) == Str(<<"No search results found for topic: ", t>>)

VARIABLES
  session_state,   \* self.session_state: a dict, 'blog_posts' -> {topic: post}
  writer_content,  \* self.writer.run_response.content
  cur,             \* the generator that is executing (0: none is)
  pc,              \* per run: where the generator stands
  topic,           \* per run: argument topic
  use_cache,       \* per run: argument use_cache
  attempt,         \* per run: iterations of the retry loop entered so far
  search_log,      \* per run: what each searcher call did, in order
  search_results,  \* per run: local search_results of run()
  writer_input,    \* per run: the articles handed to the writer
  stream,          \* per run: the chunks the writer has streamed
  emitted,         \* per run: the events the caller has received
  steps,           \* per run: lookup / search / write / store, in order
  start_state,     \* per run: session_state when the run started
  stored           \* per run: whether it stored a post, and the post

vars == <<session_state, writer_content, cur, pc, topic, use_cache, attempt,
          search_log, search_results, writer_input, stream, emitted, steps,
          start_state, stored>>

\* ----------------------------------------------------------- cache (66-84)
\* _get_cached_blog_post: session_state.get('blog_posts', {}).get(topic)
GetCachedBlogPost_wrongKey(ss, t) ==
  DictGet(DictGet(ss, "blog_posts", EmptyDict),
          CHOOSE x \in Topics : x # t, None)
GetCachedBlogPost(ss, t) ==
  DictGet(DictGet(ss, "blog_posts", EmptyDict), t, None)

\* _add_blog_post_to_cache: setdefault('blog_posts', {}), then [topic] = post
AddBlogPostToCache_keepsExisting(ss, t, blog_post) ==
  LET s1 == IF "blog_posts" \in DOMAIN ss
            THEN ss ELSE DictSet(ss, "blog_posts", EmptyDict)
  IN  IF t \in DOMAIN s1["blog_posts"] THEN s1
      ELSE DictSet(s1, "blog_posts", DictSet(s1["blog_posts"], t, blog_post))
AddBlogPostToCache_replacesDict(ss, t, blog_post) ==
  DictSet(ss, "blog_posts", DictSet(EmptyDict, t, blog_post))
AddBlogPostToCache(ss, t, blog_post) ==
  LET s1 == IF "blog_posts" \in DOMAIN ss
            THEN ss ELSE DictSet(ss, "blog_posts", EmptyDict)
  IN  DictSet(s1, "blog_posts", DictSet(s1["blog_posts"], t, blog_post))

\* `if use_cache:` of run()
ConsultsCache_always(uc) == TRUE
ConsultsCache(uc) == uc

\* --------------------------------------------------------- search (86-102)
\* `if response and isinstance(response.content, SearchResults)`, reached
\* only when searcher.run did not raise
Accepted_nonEmptyOnly(out) ==
  out.kind = "SearchResults" /\ Len(out.articles) > 0
Accepted_truthyOnly(out) == out.kind \notin {"raise", "falsy"}
Accepted(out) ==
  /\ out.kind # "raise"
  /\ out.kind # "falsy"
  /\ out.kind = "SearchResults"

\* `for attempt in range(MAX_ATTEMPTS)`: is there an iteration number a?
MoreAttempts_offByOne(a) == a <= MAX_ATTEMPTS
MoreAttempts(a) == a < MAX_ATTEMPTS

\* `if not search_results or len(search_results.articles) == 0` of run()
HasNoResults_noneOnly(sr) == sr.kind = "None"
HasNoResults(sr) == sr.kind = "None" \/ Len(sr.articles) = 0

\* ---------------------------------------------------------- write (104-116)
\* the writer agent adds each streamed chunk to its run_response.content
Accumulate(content, chunk) ==
  IF content.isNone THEN Str(chunk) ELSE Str(content.str \o chunk)

\* `yield from`: the caller receives the writer's event as it is
YieldFrom_dropsEmpty(events, ev) ==
  IF ev.content.str = <<>> THEN events ELSE Append(events, ev)
YieldFrom(events, ev) == Append(events, ev)

\* --------------------------------------------------------------- the state
Suspended == {"yield_hit", "yield_empty", "yield_chunk"}
Ended == {"done", "raised", "closed"}

TypeOK ==
  /\ cur \in Runs \cup {0}
  /\ pc \in [Runs -> {"idle", "check_cache", "search", "check_results",
                      "write", "streaming"} \cup Suspended \cup Ended]
  /\ topic \in [Runs -> Topics]
  /\ use_cache \in [Runs -> BOOLEAN]
  /\ attempt \in [Runs -> 0..MAX_ATTEMPTS]
  /\ \A r \in Runs : Len(stream[r]) <= MaxChunks

Init ==
  /\ session_state = EmptyDict
  /\ writer_content = None
  /\ cur = 0
  /\ pc = [r \in Runs |-> "idle"]
  /\ topic = [r \in Runs |-> "t1"]
  /\ use_cache = [r \in Runs |-> TRUE]
  /\ attempt = [r \in Runs |-> 0]
  /\ search_log = [r \in Runs |-> <<>>]
  /\ search_results = [r \in Runs |-> NoSearchResults]
  /\ writer_input = [r \in Runs |-> <<>>]
  /\ stream = [r \in Runs |-> <<>>]
  /\ emitted = [r \in Runs |-> <<>>]
  /\ steps = [r \in Runs |-> <<>>]
  /\ start_state = [r \in Runs |-> EmptyDict]
  /\ stored = [r \in Runs |-> <<FALSE, None>>]

\* the caller calls run(t, uc) and asks the generator for its first event
StartRun(r, t, uc) ==
  /\ cur = 0
  /\ pc[r] \in {"idle"} \cup Ended
  /\ cur' = r
  /\ pc' = [pc EXCEPT ![r] = "check_cache"]
  /\ topic' = [topic EXCEPT ![r] = t]
  /\ use_cache' = [use_cache EXCEPT ![r] = uc]
  /\ attempt' = [attempt EXCEPT ![r] = 0]
  /\ search_log' = [search_log EXCEPT ![r] = <<>>]
  /\ search_results' = [search_results EXCEPT ![r] = NoSearchResults]
  /\ writer_input' = [writer_input EXCEPT ![r] = <<>>]
  /\ stream' = [stream EXCEPT ![r] = <<>>]
  /\ emitted' = [emitted EXCEPT ![r] = <<>>]
  /\ steps' = [steps EXCEPT ![r] = <<>>]
  /\ start_state' = [start_state EXCEPT ![r] = session_state]
  /\ stored' = [stored EXCEPT ![r] = <<FALSE, None>>]
  /\ UNCHANGED <<session_state, writer_content>>

\* Step 1 of run(): lines 49-54
CheckCache(r) ==
  /\ cur = r
  /\ pc[r] = "check_cache"
  /\ IF ConsultsCache(use_cache[r])
     THEN LET cached_blog_post == GetCachedBlogPost(session_state, topic[r])
          IN  /\ steps' = [steps EXCEPT ![r] = Append(@, "lookup")]
              /\ IF Truthy(cached_blog_post)
                 THEN /\ emitted' = [emitted EXCEPT ![r] =
                            Append(@, RunResponse(cached_blog_post,
                                                  "workflow_completed"))]
                      /\ pc' = [pc EXCEPT ![r] = "yield_hit"]
                      /\ cur' = 0
                 ELSE /\ pc' = [pc EXCEPT ![r] = "search"]
                      /\ UNCHANGED <<emitted, cur>>
     ELSE /\ pc' = [pc EXCEPT ![r] = "search"]
          /\ UNCHANGED <<emitted, cur, steps>>
  /\ UNCHANGED <<session_state, writer_content, topic, use_cache, attempt,
                 search_log, search_results, writer_input, stream,
                 start_state, stored>>

\* one iteration of the retry loop of _get_search_results (lines 88-99); the
\* last one falls through to `return None` (lines 101-102)
SearchAttempt(r, out) ==
  /\ cur = r
  /\ pc[r] = "search"
  /\ MoreAttempts(attempt[r])
  /\ attempt' = [attempt EXCEPT ![r] = @ + 1]
  /\ search_log' = [search_log EXCEPT ![r] = Append(@, out)]
  /\ steps' = [steps EXCEPT ![r] = Append(@, "search")]
  /\ IF Accepted(out)
     THEN /\ search_results' = [search_results EXCEPT ![r] = out]
          /\ pc' = [pc EXCEPT ![r] = "check_results"]
     ELSE IF MoreAttempts(attempt[r] + 1)
     THEN UNCHANGED <<search_results, pc>>
     ELSE /\ search_results' = [search_results EXCEPT ![r] = NoSearchResults]
          /\ pc' = [pc EXCEPT ![r] = "check_results"]
  /\ UNCHANGED <<session_state, writer_content, cur, topic, use_cache,
                 writer_input, stream, emitted, start_state, stored>>

\* Step 2 of run(), after the search: lines 58-61
CheckResults(r) ==
  /\ cur = r
  /\ pc[r] = "check_results"
  /\ IF HasNoResults(search_results[r])
     THEN /\ emitted' = [emitted EXCEPT ![r] =
                Append(@, RunResponse(NoResultsMessage(topic[r]),
                                      "workflow_completed"))]
          /\ pc' = [pc EXCEPT ![r] = "yield_empty"]
          /\ cur' = 0
     ELSE /\ pc' = [pc EXCEPT ![r] = "write"]
          /\ UNCHANGED <<emitted, cur>>
  /\ UNCHANGED <<session_state, writer_content, topic, use_cache, attempt,
                 search_log, search_results, writer_input, stream, steps,
                 start_state, stored>>

\* _write_blog_post up to the call of the writer: lines 104-114.  The writer
\* starts a run of its own with a fresh run_response.
WriterStart(r) ==
  /\ cur = r
  /\ pc[r] = "write"
  /\ writer_input' = [writer_input EXCEPT ![r] = search_results[r].articles]
  /\ steps' = [steps EXCEPT ![r] = Append(@, "write")]
  /\ writer_content' = None
  /\ pc' = [pc EXCEPT ![r] = "streaming"]
  /\ UNCHANGED <<session_state, cur, topic, use_cache, attempt, search_log,
                 search_results, stream, emitted, start_state, stored>>

\* the writer streams a chunk and `yield from` hands it to the caller: the
\* generator is suspended at line 114
WriterYield_cachesSoFar(r, c) ==
  /\ cur = r
  /\ pc[r] = "streaming"
  /\ Len(stream[r]) < MaxChunks
  /\ stream' = [stream EXCEPT ![r] = Append(@, c)]
  /\ writer_content' = Accumulate(writer_content, c)
  /\ session_state' =
       AddBlogPostToCache(session_state, topic[r], writer_content')
  /\ emitted' = [emitted EXCEPT ![r] =
                   YieldFrom(@, RunResponse(Str(c), "run_response"))]
  /\ pc' = [pc EXCEPT ![r] = "yield_chunk"]
  /\ cur' = 0
  /\ UNCHANGED <<topic, use_cache, attempt, search_log,
                 search_results, writer_input, steps, start_state, stored>>
WriterYield(r, c) ==
  /\ cur = r
  /\ pc[r] = "streaming"
  /\ Len(stream[r]) < MaxChunks
  /\ stream' = [stream EXCEPT ![r] = Append(@, c)]
  /\ writer_content' = Accumulate(writer_content, c)
  /\ emitted' = [emitted EXCEPT ![r] =
                   YieldFrom(@, RunResponse(Str(c), "run_response"))]
  /\ pc' = [pc EXCEPT ![r] = "yield_chunk"]
  /\ cur' = 0
  /\ UNCHANGED <<session_state, topic, use_cache, attempt, search_log,
                 search_results, writer_input, steps, start_state, stored>>

\* the writer's stream ends; line 116 stores run_response.content and the
\* generator returns
FinishWrite_storesNothing(r) ==
  /\ cur = r
  /\ pc[r] = "streaming"
  /\ steps' = [steps EXCEPT ![r] = Append(@, "store")]
  /\ pc' = [pc EXCEPT ![r] = "done"]
  /\ cur' = 0
  /\ UNCHANGED <<session_state, writer_content, topic, use_cache, attempt,
                 search_log, search_results, writer_input, stream, emitted,
                 start_state, stored>>
FinishWrite(r) ==
  /\ cur = r
  /\ pc[r] = "streaming"
  /\ session_state' =
       AddBlogPostToCache(session_state, topic[r], writer_content)
  /\ stored' = [stored EXCEPT ![r] = <<TRUE, writer_content>>]
  /\ steps' = [steps EXCEPT ![r] = Append(@, "store")]
  /\ pc' = [pc EXCEPT ![r] = "done"]
  /\ cur' = 0
  /\ UNCHANGED <<writer_content, topic, use_cache, attempt, search_log,
                 search_results, writer_input, stream, emitted, start_state>>

\* the writer raises; nothing in _write_blog_post or run() catches it
WriterRaise_cachesPartial(r) ==
  /\ cur = r
  /\ pc[r] = "streaming"
  /\ session_state' =
       AddBlogPostToCache(session_state, topic[r], writer_content)
  /\ pc' = [pc EXCEPT ![r] = "raised"]
  /\ cur' = 0
  /\ UNCHANGED <<writer_content, topic, use_cache, attempt, search_log,
                 search_results, writer_input, stream, emitted, steps,
                 start_state, stored>>
WriterRaise(r) ==
  /\ cur = r
  /\ pc[r] = "streaming"
  /\ pc' = [pc EXCEPT ![r] = "raised"]
  /\ cur' = 0
  /\ UNCHANGED <<session_state, writer_content, topic, use_cache, attempt,
                 search_log, search_results, writer_input, stream, emitted,
                 steps, start_state, stored>>

\* the caller asks for the next event of a run suspended at line 114
ResumeStream(r) ==
  /\ cur = 0
  /\ pc[r] = "yield_chunk"
  /\ pc' = [pc EXCEPT ![r] = "streaming"]
  /\ cur' = r
  /\ UNCHANGED <<session_state, writer_content, topic, use_cache, attempt,
                 search_log, search_results, writer_input, stream, emitted,
                 steps, start_state, stored>>

\* the caller asks for the next event of a run suspended at line 53 or 60:
\* the `return` that follows ends the generator
ResumeReturn_fallsThrough(r) ==
  /\ cur = 0
  /\ pc[r] \in {"yield_hit", "yield_empty"}
  /\ pc' = [pc EXCEPT ![r] = IF pc[r] = "yield_hit" THEN "search" ELSE "done"]
  /\ cur' = IF pc[r] = "yield_hit" THEN r ELSE 0
  /\ UNCHANGED <<session_state, writer_content, topic, use_cache,
                 attempt, search_log, search_results, writer_input, stream,
                 emitted, steps, start_state, stored>>
ResumeReturn(r) ==
  /\ cur = 0
  /\ pc[r] \in {"yield_hit", "yield_empty"}
  /\ pc' = [pc EXCEPT ![r] = "done"]
  /\ UNCHANGED <<session_state, writer_content, cur, topic, use_cache,
                 attempt, search_log, search_results, writer_input, stream,
                 emitted, steps, start_state, stored>>

\* the caller drops a suspended generator instead of resuming it
Close(r) ==
  /\ cur = 0
  /\ pc[r] \in Suspended
  /\ pc' = [pc EXCEPT ![r] = "closed"]
  /\ UNCHANGED <<session_state, writer_content, cur, topic, use_cache,
                 attempt, search_log, search_results, writer_input, stream,
                 emitted, steps, start_state, stored>>

Step(r) ==
  \/ \E t \in Topics, uc \in BOOLEAN : StartRun(r, t, uc)
  \/ CheckCache(r)
  \/ \E out \in SearcherOutcomes : SearchAttempt(r, out)
  \/ CheckResults(r)
  \/ WriterStart(r)
  \/ \E c \in ChunkTexts : WriterYield(r, c)
  \/ FinishWrite(r)
  \/ WriterRaise(r)
  \/ ResumeStream(r)
  \/ ResumeReturn(r)
  \/ Close(r)

\* runs made one after another on one workflow instance
Next == \E r \in SeqRuns : Step(r)

Spec == Init /\ [][Next]_vars

\* ------------------------------------------------------------- properties
Count(seq, x) == Cardinality({i \in DOMAIN seq : seq[i] = x})
Has(seq, x) == \E i \in DOMAIN seq : seq[i] = x

RECURSIVE Concat(_)
Concat(chunks) ==
  IF chunks = <<>> THEN <<>> ELSE Head(chunks) \o Concat(Tail(chunks))
\* the text a finished stream of these chunks adds up to
FinalText(chunks) == IF chunks = <<>> THEN None ELSE Str(Concat(chunks))
\* the events of a stream of these chunks
EventsOf(chunks) ==
  [i \in 1..Len(chunks) |-> RunResponse(Str(chunks[i]), "run_response")]

CachedTopics(ss) == DOMAIN DictGet(ss, "blog_posts", EmptyDict)
HitEvent(r) ==
  RunResponse(GetCachedBlogPost(start_state[r], topic[r]),
              "workflow_completed")
EmptyEvent(r) == RunResponse(NoResultsMessage(topic[r]), "workflow_completed")
\* the run is past its search step, and made one
Searched(r) ==
  /\ pc[r] \notin {"idle", "check_cache", "search"}
  /\ Has(steps[r], "search")
WroteToEnd(r) == pc[r] = "done" /\ Has(steps[r], "store")

\* C1: a run that misses the cache, finds at least one article and whose
\* writer streams c1..cn and ends normally has emitted exactly c1..cn in
\* that order when it is exhausted, and the cache then maps its topic to the
\* final text the chunks add up to.
C1_StreamForwardedThenCached ==
  \A r \in Runs :
    WroteToEnd(r) =>
      /\ Len(writer_input[r]) >= 1
      /\ emitted[r] = EventsOf(stream[r])
      /\ writer_content = FinalText(stream[r])
      /\ topic[r] \in CachedTopics(session_state)
      /\ session_state["blog_posts"][topic[r]] = FinalText(stream[r])

C1_Witness ==
  \E r \in Runs :
    /\ WroteToEnd(r)
    /\ stream[r] = <<<<"a">>, <<"a">>>>
    /\ Len(emitted[r]) = 2
    /\ session_state["blog_posts"][topic[r]] = Str(<<"a", "a">>)

\* the run took the cache-hit path: one completed event carrying the text
\* the cache held when the run started, no collaborator call, cache as it was
IsHit(r) ==
  /\ pc[r] \in {"yield_hit", "done", "closed"}
  /\ emitted[r] = <<HitEvent(r)>>
  /\ HitEvent(r).content = start_state[r]["blog_posts"][topic[r]]
  /\ steps[r] = <<"lookup">>
  /\ session_state = start_state[r]
\* a write stored an entry for the run's topic before the run started
HadEntry(r) == topic[r] \in CachedTopics(start_state[r])
\* the lookup after a completed write returns the text that write stored
LookupReturnsStored ==
  \A r \in Runs :
    WroteToEnd(r) =>
      GetCachedBlogPost(session_state, topic[r]) = writer_content

\* C2 (as stated): after a successful write for T the lookup returns the
\* text stored, and every later run(T, use_cache=true) is a cache hit: one
\* workflow-completed event carrying the stored text, no search, no writer
\* call, cache unchanged.
C2_EveryStoredEntryHits ==
  /\ LookupReturnsStored
  /\ \A r \in Runs :
       (pc[r] \notin {"idle", "check_cache"} /\ use_cache[r] /\ HadEntry(r))
         => IsHit(r)

\* C2 (amended): the same, for the entries whose stored text is neither
\* absent (None) nor the empty string.
C2_NonEmptyStoredEntryHits ==
  /\ LookupReturnsStored
  /\ \A r \in Runs :
       ( /\ pc[r] \notin {"idle", "check_cache"}
         /\ use_cache[r]
         /\ HadEntry(r)
         /\ ~start_state[r]["blog_posts"][topic[r]].isNone
         /\ start_state[r]["blog_posts"][topic[r]].str # <<>> )
         => IsHit(r)

C2_Witness ==
  \E r \in Runs :
    /\ pc[r] = "done"
    /\ use_cache[r]
    /\ HadEntry(r)
    /\ IsHit(r)
    /\ emitted[r] = <<RunResponse(Str(<<"a">>), "workflow_completed")>>

\* C3: a run with use_cache=false never consults the cache, is never a cache
\* hit, has called the searcher at least once when it is past the search
\* step, and emits no completed event carrying cached text, whatever the
\* cache holds.
C3_NoCacheRunSearchesAgain ==
  \A r \in Runs :
    (pc[r] # "idle" /\ ~use_cache[r]) =>
      /\ ~Has(steps[r], "lookup")
      /\ pc[r] # "yield_hit"
      /\ pc[r] \notin {"check_cache", "search"} =>
           (Count(steps[r], "search") >= 1 /\ Len(search_log[r]) >= 1)
      /\ \A i \in DOMAIN emitted[r] :
           emitted[r][i].event = "workflow_completed" =>
             emitted[r][i] = EmptyEvent(r)

C3_Witness ==
  \E r \in Runs :
    /\ ~use_cache[r]
    /\ HadEntry(r)
    /\ start_state[r]["blog_posts"][topic[r]] = Str(<<"a">>)
    /\ WroteToEnd(r)
    /\ Count(steps[r], "search") >= 1
    /\ session_state["blog_posts"][topic[r]] = Str(<<"a", "a">>)

\* C4: the search step returns the content of the first attempt k, 1 <= k
\* <= 3, that is a SearchResults, whatever attempts 1..k-1 did; the searcher
\* is called exactly k times and not again afterwards.
C4_FirstValidAttemptReturned ==
  \A r \in Runs :
    Searched(r) =>
      LET k == Len(search_log[r]) IN
      /\ k \in 1..3
      /\ attempt[r] = k
      /\ Count(steps[r], "search") = k
      /\ \A j \in 1..k :
           search_log[r][j].kind = "SearchResults" =>
             (j = k /\ search_results[r] = search_log[r][j])
      /\ search_results[r] # NoSearchResults =>
           ( /\ search_log[r][k].kind = "SearchResults"
             /\ search_results[r] = search_log[r][k] )

C4_Witness ==
  \E r \in Runs :
    /\ Searched(r)
    /\ Len(search_log[r]) = 3
    /\ search_log[r][1].kind = "raise"
    /\ search_log[r][2].kind = "other"
    /\ search_log[r][3] = SearchResults(1)
    /\ search_results[r] = SearchResults(1)
    /\ pc[r] = "done"

\* C5: when all 3 attempts fail (an exception or a response that is no
\* SearchResults, in any mix) the search step has called the searcher
\* exactly 3 times and returns None without raising, and the run ends with
\* the no-results message; a run raises only out of the writer.
AllFailed(r) ==
  /\ Searched(r)
  /\ \A j \in DOMAIN search_log[r] : search_log[r][j].kind # "SearchResults"

C5_AllAttemptsFailGivesNone ==
  \A r \in Runs :
    /\ pc[r] = "raised" => Has(steps[r], "write")
    /\ AllFailed(r) =>
         /\ Len(search_log[r]) = 3
         /\ Count(steps[r], "search") = 3
         /\ search_results[r] = NoSearchResults
         /\ pc[r] \in {"check_results", "yield_empty", "done", "closed"}
         /\ pc[r] # "check_results" => emitted[r] = <<EmptyEvent(r)>>

C5_Witness ==
  \E r \in Runs :
    /\ AllFailed(r)
    /\ search_log[r][1].kind = "other"
    /\ search_log[r][2].kind = "raise"
    /\ search_log[r][3].kind = "falsy"
    /\ pc[r] = "done"
    /\ emitted[r] = <<EmptyEvent(r)>>

\* C6: when the search step yields None or a SearchResults of zero articles
\* the run emits exactly one event, the workflow-completed no-results
\* message for its topic, never calls the writer and leaves the cache as it
\* was; the writer is only ever called with at least one article.
C6_NoResultsShortCircuits ==
  \A r \in Runs :
    /\ ( /\ Searched(r)
         /\ pc[r] # "check_results"
         /\ \/ search_results[r].kind = "None"
            \/ Len(search_results[r].articles) = 0 )
       => /\ pc[r] \in {"yield_empty", "done", "closed"}
          /\ emitted[r] = <<EmptyEvent(r)>>
          /\ ~Has(steps[r], "write")
          /\ ~Has(steps[r], "store")
          /\ session_state = start_state[r]
    /\ Has(steps[r], "write")
       => /\ search_results[r].kind = "SearchResults"
          /\ writer_input[r] = search_results[r].articles
          /\ Len(writer_input[r]) >= 1

C6_Witness ==
  \E r \in Runs :
    /\ Searched(r)
    /\ search_results[r] = SearchResults(0)
    /\ pc[r] = "done"
    /\ emitted[r] = <<EmptyEvent(r)>>
    /\ steps[r] = <<"lookup", "search">>

\* C7: when the writer fails, before its first chunk or after some chunks,
\* the run ends raised, the writer was called once only, nothing was stored
\* and the cache is what it was when the run started.
C7_FailedWriteCachesNothing ==
  \A r \in Runs :
    pc[r] = "raised" =>
      /\ Count(steps[r], "write") = 1
      /\ ~Has(steps[r], "store")
      /\ emitted[r] = EventsOf(stream[r])
      /\ session_state = start_state[r]

C7_Witness ==
  \E r \in Runs :
    /\ pc[r] = "raised"
    /\ stream[r] = <<<<"a">>>>
    /\ writer_content = Str(<<"a">>)
    /\ topic[r] \notin CachedTopics(session_state)

\* C8 (as stated): every run that ends without raising has emitted one or
\* more events, on the HIT, EMPTY and WRITE paths alike.
C8_EveryEndedRunEmits ==
  \A r \in Runs : pc[r] = "done" => Len(emitted[r]) >= 1

\* C8 (amended): a run that ends without raising has emitted exactly one
\* workflow-completed event on the HIT and EMPTY paths and exactly the
\* writer's streamed events on the WRITE path; it has emitted no event at
\* all exactly when it took the WRITE path and the writer streamed no chunk.
C8_EndedRunEmitsPathEvents ==
  \A r \in Runs :
    pc[r] = "done" =>
      /\ IF Has(steps[r], "write")
         THEN /\ emitted[r] = EventsOf(stream[r])
              /\ Len(emitted[r]) = Len(stream[r])
         ELSE /\ Len(emitted[r]) = 1
              /\ emitted[r][1].event = "workflow_completed"
              /\ emitted[r][1] \in {HitEvent(r), EmptyEvent(r)}
      /\ Len(emitted[r]) = 0 <=> (Has(steps[r], "write") /\ stream[r] = <<>>)

C8_Witness ==
  \E r \in Runs :
    /\ WroteToEnd(r)
    /\ stream[r] = <<>>
    /\ emitted[r] = <<>>

\* C9: within one run the steps occur in the order lookup, search (up to 3
\* times), write, store, none of them re-entered: no step after a completed
\* event, the writer called at most once and only after a search, the cache
\* stored at most once and only after the writer call, no search once
\* writing has begun.
Rank(step) ==
  CASE step = "lookup" -> 1
    [] step = "search" -> 2
    [] step = "write" -> 3
    [] step = "store" -> 4

C9_StepsInOrder ==
  \A r \in Runs :
    LET s == steps[r] IN
    /\ \A i, j \in DOMAIN s :
         i < j => /\ Rank(s[i]) <= Rank(s[j])
                  /\ Rank(s[i]) = Rank(s[j]) => s[i] = "search"
    /\ Count(s, "search") <= 3
    /\ Has(s, "store") => (Has(s, "write") /\ pc[r] = "done")
    /\ Has(s, "write") =>
         /\ Has(s, "search")
         /\ pc[r] \in {"streaming", "yield_chunk", "raised", "done", "closed"}
    /\ pc[r] = "yield_hit" => s = <<"lookup">>
    /\ (emitted[r] # <<>> /\ emitted[r][1].event = "workflow_completed") =>
         /\ pc[r] \in {"yield_hit", "yield_empty", "done", "closed"}
         /\ ~Has(s, "write")
         /\ emitted[r][1] = HitEvent(r) => ~Has(s, "search")

C9_Witness ==
  \E r \in Runs :
    /\ steps[r] = <<"lookup", "search", "search", "write", "store">>
    /\ pc[r] = "done"

\* C10: cache entries are never removed, and the entry of a topic T changes
\* only in the step in which a write stream for T runs to completion.
EntryOf(ss, t) ==
  IF t \in CachedTopics(ss) THEN <<TRUE, ss["blog_posts"][t]>>
  ELSE <<FALSE, None>>

C10_EntriesPersist ==
  [][\A t \in Topics :
       /\ t \in CachedTopics(session_state) =>
            t \in CachedTopics(session_state')
       /\ EntryOf(session_state', t) # EntryOf(session_state, t) =>
            \E r \in Runs : /\ topic[r] = t
                            /\ pc[r] = "streaming"
                            /\ pc'[r] = "done"
                            /\ Has(steps'[r], "store")]_vars

C10_Witness ==
  \E r \in Runs :
    /\ CachedTopics(session_state) = Topics
    /\ session_state["blog_posts"]["t1"] = Str(<<"a">>)
    /\ session_state["blog_posts"]["t2"] = Str(<<"a", "a">>)
    /\ CachedTopics(start_state[r]) = Topics
    /\ pc[r] = "raised"
    /\ stream[r] # <<>>

\* ------------------------------------------------ a caller that keeps pulling
\* the steps of a run whose caller resumes it after every event: the
\* generator is never dropped
Pull(r) ==
  \/ \E t \in Topics, uc \in BOOLEAN : StartRun(r, t, uc)
  \/ CheckCache(r)
  \/ \E out \in SearcherOutcomes : SearchAttempt(r, out)
  \/ CheckResults(r)
  \/ WriterStart(r)
  \/ \E c \in ChunkTexts : WriterYield(r, c)
  \/ FinishWrite(r)
  \/ WriterRaise(r)
  \/ ResumeStream(r)
  \/ ResumeReturn(r)

NextPull == \E r \in SeqRuns : Pull(r)

\* every collaborator call returns or raises and the caller asks for the next
\* event: a step that can be taken is taken
FairSpec == Init /\ [][NextPull]_vars /\ WF_vars(NextPull)

\* C11: with collaborators that answer, a finite writer stream and a caller
\* that keeps pulling, every run that starts reaches done (HIT, EMPTY or
\* WRITE) or raises; the searcher is called at most 3 times per run, and
\* between two attempts the generator is executing, never suspended.
C11_RunTerminates ==
  /\ [](\A r \in Runs :
          /\ Count(steps[r], "search") <= 3
          /\ pc[r] = "search" => (cur = r /\ attempt[r] < 3))
  /\ \A r \in Runs :
       (pc[r] = "check_cache") ~> (pc[r] \in {"done", "raised"})

C11_Witness ==
  \E r \in Runs :
    /\ pc[r] = "done"
    /\ Count(steps[r], "search") = 3
    /\ Has(steps[r], "store")
    /\ Len(stream[r]) = 2

\* C13: the store comes strictly after the last chunk was delivered: while a
\* run is suspended at a chunk the cache is what it was when the run
\* started, a run whose caller stopped pulling has stored nothing, and a run
\* that stored had delivered every chunk of its stream.
C13_StoreAfterLastChunk ==
  \A r \in Runs :
    /\ pc[r] = "yield_chunk" =>
         /\ ~Has(steps[r], "store")
         /\ EntryOf(session_state, topic[r]) = EntryOf(start_state[r], topic[r])
    /\ pc[r] = "closed" =>
         /\ ~Has(steps[r], "store")
         /\ EntryOf(session_state, topic[r]) = EntryOf(start_state[r], topic[r])
    /\ Has(steps[r], "store") =>
         /\ pc[r] = "done"
         /\ emitted[r] = EventsOf(stream[r])

C13_Witness ==
  \E r \in Runs :
    /\ pc[r] = "closed"
    /\ Has(steps[r], "write")
    /\ stream[r] = <<<<"a">>>>
    /\ emitted[r] = EventsOf(stream[r])
    /\ topic[r] \notin CachedTopics(session_state)

\* C14: a SearchResults of zero articles returned by attempt k is accepted
\* at once: it is the last searcher call of the run (exactly k calls), the
\* writer is not called, and the run emits the single no-results event, the
\* same event a run emits whose 3 attempts all failed.
C14_EmptySearchNotRetried ==
  \A r \in Runs :
    /\ \A j \in DOMAIN search_log[r] :
         ( /\ search_log[r][j].kind = "SearchResults"
           /\ Len(search_log[r][j].articles) = 0 )
         => /\ j = Len(search_log[r])
            /\ attempt[r] = j
            /\ Count(steps[r], "search") = j
            /\ search_results[r] = search_log[r][j]
            /\ ~Has(steps[r], "write")
            /\ pc[r] \in {"check_results", "yield_empty", "done", "closed"}
            /\ pc[r] # "check_results" => emitted[r] = <<EmptyEvent(r)>>
    /\ (AllFailed(r) /\ pc[r] # "check_results") =>
         emitted[r] = <<EmptyEvent(r)>>

C14_Witness ==
  \E r \in Runs :
    /\ Len(search_log[r]) = 2
    /\ search_log[r][1].kind = "raise"
    /\ search_log[r][2] = SearchResults(0)
    /\ pc[r] = "done"
    /\ emitted[r] = <<EmptyEvent(r)>>

\* C15: with runs made one after another, the cached value of every topic is
\* the final text of the most recent write stream completed for it: the
\* cache starts empty, the step that completes a write stream for T sets T's
\* entry to that stream's final text (overwriting what was there, also for
\* use_cache=false), and no other step changes T's entry.
CompletesWrite(r) == pc[r] = "streaming" /\ pc'[r] = "done"

C15_CacheHoldsLatestWrite ==
  [][\A t \in Topics :
       IF \E r \in Runs : topic[r] = t /\ CompletesWrite(r)
       THEN \A r \in Runs :
              (topic[r] = t /\ CompletesWrite(r)) =>
                EntryOf(session_state', t) = <<TRUE, FinalText(stream[r])>>
       ELSE EntryOf(session_state', t) = EntryOf(session_state, t)]_vars

C15_Witness ==
  \E r \in Runs :
    /\ ~use_cache[r]
    /\ WroteToEnd(r)
    /\ CachedTopics(start_state[r]) = Topics
    /\ \A t \in Topics : start_state[r]["blog_posts"][t] = Str(<<"a", "a">>)
    /\ stream[r] = <<<<>>, <<"a">>>>
    /\ session_state["blog_posts"][topic[r]] = Str(<<"a">>)

\* C16: a write stream that ends with absent (None) or empty final text has
\* that value stored under its topic, and a run(topic, use_cache=true) that
\* finds such an entry is a miss: no hit event, and the searcher is called.
C16_FalsyEntryIsMiss ==
  \A r \in Runs :
    /\ ( /\ WroteToEnd(r)
         /\ FinalText(stream[r]) \in {None, Str(<<>>)} )
       => EntryOf(session_state, topic[r]) = <<TRUE, FinalText(stream[r])>>
    /\ ( /\ pc[r] \notin {"idle", "check_cache"}
         /\ use_cache[r]
         /\ HadEntry(r)
         /\ start_state[r]["blog_posts"][topic[r]] \in {None, Str(<<>>)} )
       => /\ steps[r][1] = "lookup"
          /\ pc[r] # "yield_hit"
          /\ \A i \in DOMAIN emitted[r] : emitted[r][i] # HitEvent(r)
          /\ pc[r] = "search" \/ Has(steps[r], "search")
          /\ pc[r] \in Ended => Has(steps[r], "search")

C16_Witness ==
  \E r \in Runs :
    /\ use_cache[r]
    /\ HadEntry(r)
    /\ start_state[r]["blog_posts"][topic[r]] = Str(<<>>)
    /\ Count(steps[r], "search") = 1
    /\ WroteToEnd(r)
    /\ session_state["blog_posts"][topic[r]] = Str(<<"a">>)

\* ------------------------------------------- two runs on one workflow instance
\* what the searcher does in the interleaved specification: it returns a
\* SearchResults (its failures are the matter of the sequential one)
ConcOutcomes == {out \in SearcherOutcomes : out.kind = "SearchResults"}

\* the steps of one of two generators made from the same workflow instance,
\* each called once; a generator runs from a resumption to its next yield,
\* return or raise before the caller can resume the other one
ConcStep(r) ==
  \/ \E t \in Topics, uc \in BOOLEAN : pc[r] = "idle" /\ StartRun(r, t, uc)
  \/ CheckCache(r)
  \/ \E out \in ConcOutcomes : SearchAttempt(r, out)
  \/ CheckResults(r)
  \/ WriterStart(r)
  \/ \E c \in ChunkTexts : WriterYield(r, c)
  \/ FinishWrite(r)
  \/ WriterRaise(r)
  \/ ResumeStream(r)
  \/ ResumeReturn(r)
  \/ Close(r)

NextConc == \E r \in Runs : ConcStep(r)

ConcSpec == Init /\ [][NextConc]_vars

\* C12: two interleaved runs for the same topic with use_cache=true are not
\* kept apart: a run that missed the cache is never cut short by what the
\* other run stores meanwhile, and the step that completes a write stream
\* stores unconditionally, replacing the entry the other run stored before;
\* so the state where both missed, both searched and wrote, and both stored,
\* the later store overwriting the earlier, is reachable (the witness).
C12_LaterStoreOverwrites ==
  [][\A r \in Runs :
       /\ (Has(steps[r], "search") /\ pc[r] \in {"streaming", "yield_chunk"})
            => pc'[r] \in {"streaming", "yield_chunk", "done", "raised",
                           "closed"}
       /\ CompletesWrite(r) =>
            /\ stored'[r][1]
            /\ EntryOf(session_state', topic[r]) = stored'[r]
            /\ \A q \in Runs \ {r} : stored'[q] = stored[q]]_vars

C12_Witness ==
  /\ topic[1] = topic[2]
  /\ \A r \in Runs :
       /\ use_cache[r]
       /\ pc[r] = "done"
       /\ steps[r] = <<"lookup", "search", "write", "store">>
  /\ stored[1] = <<TRUE, Str(<<"a">>)>>
  /\ stored[2] = <<TRUE, Str(<<"a", "a">>)>>
  /\ EntryOf(session_state, topic[1]) = stored[2]

OtherNeverWrote(r) == \A q \in Runs \ {r} : ~Has(steps[q], "write")

====
